---- MODULE Spec2Model ----
(***************************************************************************)
(* A model of source-content/extract_content.py: the spam predicate, the   *)
(* content-section and form extraction of extract_page_content, the        *)
(* Markdown renderer save_markdown and the per-page driver loop of main(). *)
(*                                                                         *)
(* A Python str is modelled as a sequence of characters; a character is a  *)
(* one-character string, or the name of its code point ("U+D3EC") when it  *)
(* is outside ASCII, or "LF" for a line feed.                              *)
(***************************************************************************)
EXTENDS Naturals, Sequences, FiniteSets

VARIABLES
    \* is_spam: argument, position, return value
    text, spamPc, spamResult,
    \* extract_page_content on one document
    doc, ePc, eIdx, content, origin, formOrigin,
    \* main(): position, loop index, locals
    pc, pageIdx, pageContent, md_file, json_file, summary,
    \* main(): the pages directory, the output directory
    inputFiles, mdFiles, jsonFiles, indexFile, indexWrites,
    \* main(): pages that entered the try block, exception in flight, error
    \* lines printed, where an exception left main()
    attempted, exc, errors, crashedIn,
    \* how many things went wrong so far
    faults

spamVars == <<text, spamPc, spamResult>>
extractVars == <<doc, ePc, eIdx, content, origin, formOrigin>>
mainVars == <<pc, pageIdx, pageContent, md_file, json_file, summary, inputFiles, mdFiles,
              jsonFiles, indexFile, indexWrites, attempted, exc, errors, crashedIn, faults>>
vars == <<text, spamPc, spamResult, doc, ePc, eIdx, content, origin, formOrigin,
          pc, pageIdx, pageContent, md_file, json_file, summary, inputFiles, mdFiles,
          jsonFiles, indexFile, indexWrites, attempted, exc, errors, crashedIn, faults>>

----------------------------------------------------------------------------
(* Bounds of the explored inputs.                                          *)

\* longest text over SpamAlphabet given to is_spam
MaxTextLen == 3
\* most div.paragraph elements inside div#wsite-content
MaxParagraphs == 2
\* most h2.wsite-content-title elements inside div#wsite-content
MaxHeadings == 2
\* most form elements of a document
MaxForms == 2
\* most input/textarea/select descendants of one form
MaxInputs == 2
\* most things that go wrong in one run: an input file that is missing or
\* unreadable, an OSError from the output directory
MaxFaults == 2

----------------------------------------------------------------------------
(* Python str operations.                                                  *)

Range(s) == {s[i] : i \in 1..Len(s)}

UpperLatin ==
    <<"A", "B", "C", "D", "E", "F", "G", "H", "I", "J", "K", "L", "M",
      "N", "O", "P", "Q", "R", "S", "T", "U", "V", "W", "X", "Y", "Z">>

LowerLatin ==
    <<"a", "b", "c", "d", "e", "f", "g", "h", "i", "j", "k", "l", "m",
      "n", "o", "p", "q", "r", "s", "t", "u", "v", "w", "x", "y", "z">>

\* the lower-case letter of each of A-Z
LowerOfLatin == [c \in Range(UpperLatin) |-> LowerLatin[CHOOSE n \in 1..26 : UpperLatin[n] = c]]

\* the upper-case letter of each of a-z
UpperOfLatin == [c \in Range(LowerLatin) |-> UpperLatin[CHOOSE n \in 1..26 : LowerLatin[n] = c]]

\* str.lower() on one character: A-Z map to a-z, the Kelvin sign U+212A maps
\* to "k", capital I with dot above (U+0130) maps to "i" followed by the
\* combining dot U+0307, every other character of the model has no case.
LowerChar(c) ==
    IF c \in DOMAIN LowerOfLatin THEN <<LowerOfLatin[c]>>
    ELSE IF c = "U+212A" THEN <<"k">>
    ELSE IF c = "U+0130" THEN <<"i", "U+0307">>
    ELSE <<c>>

RECURSIVE lower(_)
lower(s) == IF s = <<>> THEN <<>> ELSE LowerChar(Head(s)) \o lower(Tail(s))

\* str.upper() on one character, used only to build inputs.
UpperChar(c) == IF c \in DOMAIN UpperOfLatin THEN UpperOfLatin[c] ELSE c

Whitespace == {" ", "LF", "TAB"}

RECURSIVE lstrip(_)
lstrip(s) == IF s # <<>> /\ Head(s) \in Whitespace THEN lstrip(Tail(s)) ELSE s

RECURSIVE rstrip(_)
rstrip(s) ==
    IF s # <<>> /\ s[Len(s)] \in Whitespace THEN rstrip(SubSeq(s, 1, Len(s) - 1)) ELSE s

\* str.strip()
strip(s) == rstrip(lstrip(s))

\* Python's `needle in hay` on two str
Contains(hay, needle) ==
    \E i \in 1..(Len(hay) + 1) :
        /\ i + Len(needle) - 1 <= Len(hay)
        /\ \A j \in 1..Len(needle) : hay[i + j - 1] = needle[j]

\* Python's `x in list`
InList(x, list) == \E i \in 1..Len(list) : list[i] = x

----------------------------------------------------------------------------
(* The spam predicate.                                                     *)

SPAM_KEYWORDS ==
    << <<"c", "a", "s", "i", "n", "o">>,
       <<"g", "a", "m", "b", "l", "i", "n", "g">>,
       <<"b", "e", "t", "t", "i", "n", "g">>,
       <<"s", "l", "o", "t">>,
       <<"p", "o", "k", "e", "r">>,
       <<"r", "o", "u", "l", "e", "t", "t", "e">>,
       <<"m", "o", "s", "t", "b", "e", "t">>,
       <<"p", "a", "r", "i", "m", "a", "t", "c", "h">>,
       <<"1", "x", "b", "e", "t">>,
       <<"m", "e", "l", "b", "e", "t">>,
       <<"p", "i", "n", "u", "p">>,
       <<"U+D3EC", "U+CEE4">>,
       <<"U+CE74", "U+C9C0", "U+B178">>,
       <<"U+BCA0", "U+D305">>,
       <<"U+B3C4", "U+BC15">>,
       <<"t", "r", "a", "g", "a", "m", "o", "n", "e", "d", "a", "s">>,
       <<"a", "p", "u", "e", "s", "t", "a", "s">>,
       <<"c", "a", "s", "i", "n", "o">>,
       <<"s", "e", "o">>,
       <<"b", "a", "c", "k", "l", "i", "n", "k">>,
       <<"s", "l", "o", "t", " ", "a", "l", "g", "o", "r", "i", "t", "h", "m", " ", "l", "o", "g", "i", "c">> >>

RECURSIVE is_spam_loop(_, _)
is_spam_loop(text_lower, k) ==
    IF k > Len(SPAM_KEYWORDS) THEN FALSE
    ELSE IF Contains(text_lower, SPAM_KEYWORDS[k]) THEN TRUE
    ELSE is_spam_loop(text_lower, k + 1)

\* the keyword test applied to the text as given, without lower-casing it
is_spam_case_sensitive(t) == is_spam_loop(t, 1)

is_spam(t) == is_spam_loop(lower(t), 1)

----------------------------------------------------------------------------
(* Python values where their type matters, and dict.get.                   *)

PyStr(s) == [t |-> "str", v |-> s]
PyFalse == [t |-> "bool", v |-> "False"]
PyNone == [t |-> "NoneType", v |-> "None"]

\* Tag.get(key, default): the attributes of an element are a set of
\* <<name, value>> pairs with at most one pair per name; html.parser gives
\* an attribute written without a value the value "".
get(attrs, key, default) ==
    IF \E kv \in attrs : kv[1] = key
    THEN PyStr((CHOOSE kv \in attrs : kv[1] = key)[2])
    ELSE default

----------------------------------------------------------------------------
(* extract_page_content: content sections.                                 *)

\* "Golden Compasses Research Lodge" (31 characters)
FooterMarkerLong ==
    <<"G", "o", "l", "d", "e", "n", " ", "C", "o", "m", "p", "a", "s", "s", "e", "s", " ", "R", "e", "s", "e", "a", "r", "c", "h", " ", "L", "o", "d", "g", "e">>

\* "All rights reserved" (19 characters)
FooterMarkerRights ==
    <<"A", "l", "l", " ", "r", "i", "g", "h", "t", "s", " ", "r", "e", "s", "e", "r", "v", "e", "d">>

ParagraphMinLen == 10
HeadingMinLen == 3

\* body of `for p in paragraphs` without the length test
ParagraphBodyNoLength(sections, raw) ==
    LET t == strip(raw) IN
    IF Contains(t, FooterMarkerLong) /\ Contains(t, FooterMarkerRights) THEN sections
    ELSE IF ~is_spam(t) THEN Append(sections, t)
    ELSE sections

\* body of `for p in paragraphs` that also skips a text already collected
ParagraphBodyDedup(sections, raw) ==
    LET t == strip(raw) IN
    IF Contains(t, FooterMarkerLong) /\ Contains(t, FooterMarkerRights) THEN sections
    ELSE IF ~is_spam(t) /\ Len(t) > ParagraphMinLen /\ ~InList(t, sections)
         THEN Append(sections, t)
    ELSE sections

\* body of `for p in paragraphs`: raw is p.get_text()
ParagraphBody(sections, raw) ==
    LET t == strip(raw) IN
    IF Contains(t, FooterMarkerLong) /\ Contains(t, FooterMarkerRights) THEN sections
    ELSE IF ~is_spam(t) /\ Len(t) > ParagraphMinLen THEN Append(sections, t)
    ELSE sections

\* body of `for h in headings`: raw is h.get_text()
HeadingBody(sections, raw) ==
    LET t == strip(raw) IN
    IF ~is_spam(t) /\ Len(t) > HeadingMinLen /\ ~InList(t, sections)
    THEN Append(sections, t)
    ELSE sections

RECURSIVE ParagraphLoop(_, _)
ParagraphLoop(sections, paragraphs) ==
    IF paragraphs = <<>> THEN sections
    ELSE ParagraphLoop(ParagraphBody(sections, Head(paragraphs)), Tail(paragraphs))

RECURSIVE HeadingLoop(_, _)
HeadingLoop(sections, headings) ==
    IF headings = <<>> THEN sections
    ELSE HeadingLoop(HeadingBody(sections, Head(headings)), Tail(headings))

----------------------------------------------------------------------------
(* extract_page_content: forms.                                            *)

\* the field dict built for one input/textarea/select element; prevLabel is
\* the text of inp.find_previous('label'), <<>> when there is no such label
Field(inp) ==
    [type |-> get(inp.attrs, "type", PyStr(inp.name)).v,
     name |-> get(inp.attrs, "name", PyStr("")).v,
     label |-> IF inp.prevLabel # <<>> THEN strip(inp.prevLabel[1]) ELSE <<>>,
     required |-> get(inp.attrs, "required", PyFalse) # PyNone]

RECURSIVE Fields(_)
Fields(inputs) ==
    IF inputs = <<>> THEN <<>> ELSE <<Field(Head(inputs))>> \o Fields(Tail(inputs))

FormData(form) ==
    [action |-> get(form.attrs, "action", PyStr("")).v,
     method |-> get(form.attrs, "method", PyStr("POST")).v,
     fields |-> Fields(form.inputs)]

\* body of `for form in forms` that appends every form_data
FormBodyKeepEmpty(forms, form) == Append(forms, FormData(form))

\* body of `for form in forms`
FormBody(forms, form) ==
    LET form_data == FormData(form) IN
    IF form_data.fields # <<>> THEN Append(forms, form_data) ELSE forms

RECURSIVE FormLoop(_, _)
FormLoop(forms, formElems) ==
    IF formElems = <<>> THEN forms
    ELSE FormLoop(FormBody(forms, Head(formElems)), Tail(formElems))

\* The record extract_page_content returns, restricted to the keys modelled
\* here; d is the parsed document.
EmptyContent(d, page_name) ==
    [page |-> page_name, title |-> d.title, content_sections |-> <<>>, forms |-> <<>>]

extract_page_content(d, page_name) ==
    [page |-> page_name,
     title |-> d.title,
     content_sections |->
        IF d.hasMain THEN HeadingLoop(ParagraphLoop(<<>>, d.paragraphs), d.headings)
        ELSE <<>>,
     forms |-> FormLoop(<<>>, d.forms)]

----------------------------------------------------------------------------
(* Input documents.                                                        *)

\* " Hi! " (5 characters)
TxtHiPadded ==
    <<" ", "H", "i", "!", " ">>

\* "Home" (4 characters)
TxtHome ==
    <<"H", "o", "m", "e">>

\* "Museo" (5 characters)
TxtMuseo ==
    <<"M", "u", "s", "e", "o">>

\* "Lodge news!" (11 characters)
TxtNews11 ==
    <<"L", "o", "d", "g", "e", " ", "n", "e", "w", "s", "!">>

\* " Lodge news \n" (13 characters)
TxtNewsPadded ==
    <<" ", "L", "o", "d", "g", "e", " ", "n", "e", "w", "s", " ", "LF">>

\* "Best CASINO bonus!" (18 characters)
TxtCasino ==
    <<"B", "e", "s", "t", " ", "C", "A", "S", "I", "N", "O", " ", "b", "o", "n", "u", "s", "!">>

\* "Golden Compasses Research Lodge. All rights reserved." (53 characters)
TxtBoilerplate ==
    <<"G", "o", "l", "d", "e", "n", " ", "C", "o", "m", "p", "a", "s", "s", "e", "s", " ", "R", "e", "s", "e", "a", "r", "c", "h", " ", "L", "o", "d", "g", "e", ".", " ", "A", "l", "l", " ", "r", "i", "g", "h", "t", "s", " ", "r", "e", "s", "e", "r", "v", "e", "d", ".">>

\* " Email " (7 characters)
TxtEmailLabel ==
    <<" ", "E", "m", "a", "i", "l", " ">>

ParagraphTexts == {TxtNews11, TxtNewsPadded, TxtCasino, TxtBoilerplate}
HeadingTexts == {TxtHiPadded, TxtHome, TxtMuseo, TxtNews11, TxtBoilerplate}

SeqsUpTo(S, n) == UNION {[1..k -> S] : k \in 0..n}

\* <input> and, after <label> Email </label>,
\* <textarea name="message" required="false">
InputElems ==
    {[name |-> "input", attrs |-> {}, prevLabel |-> <<>>],
     [name |-> "textarea",
      attrs |-> {<<"name", "message">>, <<"required", "false">>},
      prevLabel |-> <<TxtEmailLabel>>]}

\* <form action="/search"></form>
FormWithActionNoFields ==
    [attrs |-> {<<"action", "/search">>}, inputs |-> <<>>]

\* <form action="/submit" method="get"> with
\* <input type="email" name="email" required> after <label> Email </label>
ContactForm ==
    [attrs |-> {<<"action", "/submit">>, <<"method", "get">>},
     inputs |-> <<[name |-> "input",
                   attrs |-> {<<"type", "email">>, <<"name", "email">>, <<"required", "">>},
                   prevLabel |-> <<TxtEmailLabel>>]>>]

\* <form> with <select name="topic">
TopicForm ==
    [attrs |-> {},
     inputs |-> <<[name |-> "select", attrs |-> {<<"name", "topic">>}, prevLabel |-> <<>>]>>]

FormElems ==
    {[attrs |-> {}, inputs |-> ins] : ins \in SeqsUpTo(InputElems, MaxInputs)}
        \cup {FormWithActionNoFields, ContactForm, TopicForm}

\* a document without div#wsite-content
NoMainDoc ==
    [title |-> "About", hasMain |-> FALSE,
     paragraphs |-> <<>>, headings |-> <<>>, forms |-> <<>>]

ContentDocs ==
    {[title |-> "About", hasMain |-> TRUE,
      paragraphs |-> ps, headings |-> hs, forms |-> <<>>] :
        ps \in SeqsUpTo(ParagraphTexts, MaxParagraphs),
        hs \in SeqsUpTo(HeadingTexts, MaxHeadings)}
        \cup {NoMainDoc}

FormDocs ==
    {[title |-> "Contact", hasMain |-> TRUE,
      paragraphs |-> <<>>, headings |-> <<>>, forms |-> fs] :
        fs \in SeqsUpTo(FormElems, MaxForms)}

ExtractDocs == ContentDocs \cup FormDocs

----------------------------------------------------------------------------
(* Values of the variables of a function that is not running.              *)

NoDoc ==
    [title |-> "", hasMain |-> FALSE,
     paragraphs |-> <<>>, headings |-> <<>>, forms |-> <<>>]

SpamIdle == text = <<>> /\ spamPc = "idle" /\ spamResult = FALSE

ExtractIdle ==
    /\ doc = NoDoc
    /\ ePc = "idle"
    /\ eIdx = 1
    /\ content = EmptyContent(NoDoc, "")
    /\ origin = <<>>
    /\ formOrigin = <<>>

MainIdle ==
    /\ pc = "idle"
    /\ pageIdx = 1
    /\ pageContent = EmptyContent(NoDoc, "")
    /\ md_file = <<"", "">>
    /\ json_file = <<"", "">>
    /\ summary = <<>>
    /\ inputFiles = {}
    /\ mdFiles = <<>>
    /\ jsonFiles = <<>>
    /\ indexFile = [status |-> "absent", entries |-> <<>>]
    /\ indexWrites = 0
    /\ attempted = {}
    /\ exc = [stage |-> "", cause |-> ""]
    /\ errors = <<>>
    /\ crashedIn = ""
    /\ faults = 0

----------------------------------------------------------------------------
(* save_markdown.                                                          *)

\* f"{name.replace('-', '_')}" for the names of the static page list
FileStem(page_name) == IF page_name = "grand-master" THEN "grand_master" ELSE page_name

\* a file name of the output directory: stem and extension
MdName(page_name) == <<FileStem(page_name), ".md">>
JsonName(page_name) == <<FileStem(page_name), ".json">>

\* one f.write of save_markdown
Line(kind, n, arg) == [kind |-> kind, n |-> n, arg |-> arg]

RECURSIVE SectionLines(_)
SectionLines(sections) ==
    IF sections = <<>> THEN <<>>
    ELSE <<Line("section", 0, Head(sections))>> \o SectionLines(Tail(sections))

\* What save_markdown does with the file it opened: the writes it made, and
\* whether it raised.  With a form in content['forms'] the statement after
\* the "### Form 1" write calls the file object, `f(...)`, which raises
\* TypeError; the with block closes the file with what was written so far.
\* The images, videos, links and footer sections are not modelled.
save_markdown(c) ==
    LET head == <<Line("h1", 0, <<c.title>>)>>
                  \o (IF c.content_sections # <<>>
                      THEN <<Line("h2", 0, <<"Content">>)>> \o SectionLines(c.content_sections)
                      ELSE <<>>)
    IN  IF c.forms # <<>>
        THEN [raised |-> TRUE,
              lines |-> head \o <<Line("h2", 0, <<"Forms">>), Line("h3", 1, <<"Form">>)>>,
              filename |-> MdName(c.page)]
        ELSE [raised |-> FALSE, lines |-> head, filename |-> MdName(c.page)]

----------------------------------------------------------------------------
(* main().                                                                 *)

pages ==
    << [html_file |-> "about.html", page_name |-> "about"],
       [html_file |-> "library.html", page_name |-> "library"],
       [html_file |-> "members.html", page_name |-> "members"],
       [html_file |-> "news.html", page_name |-> "news"],
       [html_file |-> "calendar.html", page_name |-> "calendar"],
       [html_file |-> "contact.html", page_name |-> "contact"],
       [html_file |-> "officers.html", page_name |-> "officers"],
       [html_file |-> "grand-master.html", page_name |-> "grand-master"],
       [html_file |-> "links.html", page_name |-> "links"] >>

PageNames == {pages[i].page_name : i \in 1..Len(pages)}
PageFiles == {pages[i].html_file : i \in 1..Len(pages)}
Stems == {FileStem(p) : p \in PageNames}
PageIndex(p) == CHOOSE i \in 1..Len(pages) : pages[i].page_name = p

\* the documents the pages directory may hold
DocPlain ==
    [title |-> "About", hasMain |-> TRUE,
     paragraphs |-> <<TxtNews11, TxtCasino>>, headings |-> <<>>, forms |-> <<>>]

DocEmptyForm ==
    [title |-> "About", hasMain |-> TRUE,
     paragraphs |-> <<TxtNews11, TxtCasino>>, headings |-> <<>>,
     forms |-> <<FormWithActionNoFields>>]

DocContact ==
    [title |-> "Contact", hasMain |-> TRUE,
     paragraphs |-> <<TxtNews11>>, headings |-> <<>>,
     forms |-> <<FormWithActionNoFields, ContactForm>>]

\* only the contact page may carry a form with a field
DriverDocs(p) ==
    IF p = "contact" THEN {DocPlain, DocEmptyForm, DocContact} ELSE {DocPlain, DocEmptyForm}

\* extract_page_content on each document of each page, computed once
Extracted ==
    [p \in PageNames |-> [d \in DriverDocs(p) |-> extract_page_content(d, p)]]

NoName == <<"", "">>
NoExc == [stage |-> "", cause |-> ""]
AbsentMd == [status |-> "absent", lines |-> <<>>]
AbsentJson == [status |-> "absent", content |-> <<>>]
AbsentIndex == [status |-> "absent", entries |-> <<>>]

Init ==
    /\ pc = "makedirs"
    /\ pageIdx = 1
    /\ pageContent = EmptyContent(NoDoc, "")
    /\ md_file = NoName
    /\ json_file = NoName
    /\ summary = <<>>
    /\ inputFiles \in {f \in SUBSET PageFiles : Cardinality(PageFiles \ f) <= MaxFaults}
    /\ mdFiles = [s \in Stems |-> AbsentMd]
    /\ jsonFiles = [s \in Stems |-> AbsentJson]
    /\ indexFile = AbsentIndex
    /\ indexWrites = 0
    /\ attempted = {}
    /\ exc = NoExc
    /\ errors = <<>>
    /\ crashedIn = ""
    /\ faults = Cardinality(PageFiles \ inputFiles)
    /\ SpamIdle
    /\ ExtractIdle

page_name == pages[pageIdx].page_name

\* os.makedirs(content_dir, exist_ok=True); an OSError leaves main()
Makedirs ==
    /\ pc = "makedirs"
    /\ \/ /\ pc' = "loop"
          /\ UNCHANGED <<crashedIn, faults>>
       \/ /\ faults < MaxFaults
          /\ pc' = "crashed"
          /\ crashedIn' = "makedirs"
          /\ faults' = faults + 1
    /\ UNCHANGED <<pageIdx, pageContent, md_file, json_file, summary, inputFiles, mdFiles,
                   jsonFiles, indexFile, indexWrites, attempted, exc, errors,
                   spamVars, extractVars>>

\* for html_file, page_name in pages: ... if os.path.exists(filepath):
LoopHead ==
    /\ pc = "loop"
    /\ IF pageIdx > Len(pages)
       THEN /\ pc' = "index"
            /\ UNCHANGED <<pageIdx, attempted>>
       ELSE IF pages[pageIdx].html_file \in inputFiles
       THEN /\ pc' = "extract"
            /\ attempted' = attempted \cup {page_name}
            /\ UNCHANGED pageIdx
       ELSE /\ pageIdx' = pageIdx + 1
            /\ UNCHANGED <<pc, attempted>>
    /\ UNCHANGED <<pageContent, md_file, json_file, summary, inputFiles, mdFiles, jsonFiles,
                   indexFile, indexWrites, exc, errors, crashedIn, faults,
                   spamVars, extractVars>>

\* content = extract_page_content(filepath, page_name); open() or read() may raise
ExtractPage ==
    /\ pc = "extract"
    /\ \/ \E d \in DriverDocs(page_name) :
            /\ pageContent' = Extracted[page_name][d]
            /\ pc' = "save_markdown"
            /\ UNCHANGED <<exc, faults>>
       \/ /\ faults < MaxFaults
          /\ faults' = faults + 1
          /\ exc' = [stage |-> "extract", cause |-> "OSError"]
          /\ pc' = "except"
          /\ UNCHANGED pageContent
    /\ UNCHANGED <<pageIdx, md_file, json_file, summary, inputFiles, mdFiles, jsonFiles,
                   indexFile, indexWrites, attempted, errors, crashedIn, spamVars, extractVars>>

\* save_markdown whose exception is swallowed: the loop body goes on
SaveMarkdownSwallow ==
    /\ pc = "save_markdown"
    /\ LET r == save_markdown(pageContent) IN
       /\ mdFiles' = [mdFiles EXCEPT ![r.filename[1]] =
                        [status |-> IF r.raised THEN "partial" ELSE "complete",
                         lines |-> r.lines]]
       /\ md_file' = r.filename
       /\ pc' = "write_json"
    /\ UNCHANGED <<pageIdx, pageContent, json_file, summary, inputFiles, jsonFiles, indexFile,
                   indexWrites, attempted, exc, errors, crashedIn, faults,
                   spamVars, extractVars>>

\* md_file = save_markdown(content, content_dir)
SaveMarkdown ==
    /\ pc = "save_markdown"
    /\ LET r == save_markdown(pageContent) IN
       \/ /\ IF r.raised
             THEN /\ mdFiles' = [mdFiles EXCEPT ![r.filename[1]] =
                                    [status |-> "partial", lines |-> r.lines]]
                  /\ exc' = [stage |-> "markdown", cause |-> "TypeError"]
                  /\ pc' = "except"
                  /\ UNCHANGED md_file
             ELSE /\ mdFiles' = [mdFiles EXCEPT ![r.filename[1]] =
                                    [status |-> "complete", lines |-> r.lines]]
                  /\ md_file' = r.filename
                  /\ pc' = "write_json"
                  /\ UNCHANGED exc
          /\ UNCHANGED faults
       \/ \* open(filename, 'w') raises OSError
          /\ faults < MaxFaults
          /\ faults' = faults + 1
          /\ exc' = [stage |-> "markdown", cause |-> "OSError"]
          /\ pc' = "except"
          /\ UNCHANGED <<mdFiles, md_file>>
       \/ \* a write or the close raises OSError
          /\ faults < MaxFaults
          /\ faults' = faults + 1
          /\ mdFiles' = [mdFiles EXCEPT ![r.filename[1]] =
                            [status |-> "partial", lines |-> SubSeq(r.lines, 1, Len(r.lines) - 1)]]
          /\ exc' = [stage |-> "markdown", cause |-> "OSError"]
          /\ pc' = "except"
          /\ UNCHANGED md_file
    /\ UNCHANGED <<pageIdx, pageContent, json_file, summary, inputFiles, jsonFiles, indexFile,
                   indexWrites, attempted, errors, crashedIn, spamVars, extractVars>>

\* a json write whose OSError leaves main()
WriteJsonFatal ==
    /\ pc = "write_json"
    /\ json_file' = JsonName(page_name)
    /\ \/ /\ jsonFiles' = [jsonFiles EXCEPT ![FileStem(page_name)] =
                              [status |-> "complete", content |-> <<pageContent>>]]
          /\ pc' = "append"
          /\ UNCHANGED <<crashedIn, faults>>
       \/ /\ faults < MaxFaults
          /\ faults' = faults + 1
          /\ jsonFiles' = [jsonFiles EXCEPT ![FileStem(page_name)] =
                              [status |-> "partial", content |-> <<>>]]
          /\ pc' = "crashed"
          /\ crashedIn' = "page"
    /\ UNCHANGED <<pageIdx, pageContent, md_file, summary, inputFiles, mdFiles, indexFile,
                   indexWrites, attempted, exc, errors, spamVars, extractVars>>

\* json_file = ...; with open(json_file, 'w') as f: json.dump(content, f, ...)
WriteJson ==
    /\ pc = "write_json"
    /\ json_file' = JsonName(page_name)
    /\ \/ /\ jsonFiles' = [jsonFiles EXCEPT ![FileStem(page_name)] =
                              [status |-> "complete", content |-> <<pageContent>>]]
          /\ pc' = "append"
          /\ UNCHANGED <<exc, faults>>
       \/ \* open(json_file, 'w') raises OSError
          /\ faults < MaxFaults
          /\ faults' = faults + 1
          /\ exc' = [stage |-> "json", cause |-> "OSError"]
          /\ pc' = "except"
          /\ UNCHANGED jsonFiles
       \/ \* a write or the close raises OSError
          /\ faults < MaxFaults
          /\ faults' = faults + 1
          /\ jsonFiles' = [jsonFiles EXCEPT ![FileStem(page_name)] =
                              [status |-> "partial", content |-> <<>>]]
          /\ exc' = [stage |-> "json", cause |-> "OSError"]
          /\ pc' = "except"
    /\ UNCHANGED <<pageIdx, pageContent, md_file, summary, inputFiles, mdFiles, indexFile,
                   indexWrites, attempted, errors, crashedIn, spamVars, extractVars>>

SummaryItem ==
    [page |-> page_name,
     markdown |-> md_file,
     json |-> json_file,
     content_sections |-> Len(pageContent.content_sections),
     forms |-> Len(pageContent.forms)]

\* summary.insert(0, {...}) in place of summary.append({...})
AppendSummaryAtFront ==
    /\ pc = "append"
    /\ summary' = <<SummaryItem>> \o summary
    /\ pageIdx' = pageIdx + 1
    /\ pc' = "loop"
    /\ UNCHANGED <<pageContent, md_file, json_file, inputFiles, mdFiles, jsonFiles, indexFile,
                   indexWrites, attempted, exc, errors, crashedIn, faults,
                   spamVars, extractVars>>

\* summary.append({...}) and the three print calls
AppendSummary ==
    /\ pc = "append"
    /\ summary' = Append(summary, SummaryItem)
    /\ pageIdx' = pageIdx + 1
    /\ pc' = "loop"
    /\ UNCHANGED <<pageContent, md_file, json_file, inputFiles, mdFiles, jsonFiles, indexFile,
                   indexWrites, attempted, exc, errors, crashedIn, faults,
                   spamVars, extractVars>>

\* a handler that lets the exception leave main()
ExceptReraise ==
    /\ pc = "except"
    /\ pc' = "crashed"
    /\ crashedIn' = "page"
    /\ UNCHANGED <<pageIdx, pageContent, md_file, json_file, summary, inputFiles, mdFiles,
                   jsonFiles, indexFile, indexWrites, attempted, exc, errors, faults,
                   spamVars, extractVars>>

\* except Exception as e: print(f"  ✗ Error: {e}")
ExceptHandler ==
    /\ pc = "except"
    /\ errors' = Append(errors, [page |-> page_name, stage |-> exc.stage, cause |-> exc.cause])
    /\ exc' = NoExc
    /\ pageIdx' = pageIdx + 1
    /\ pc' = "loop"
    /\ UNCHANGED <<pageContent, md_file, json_file, summary, inputFiles, mdFiles, jsonFiles,
                   indexFile, indexWrites, attempted, crashedIn, faults,
                   spamVars, extractVars>>

RECURSIVE IndexEntries(_)
IndexEntries(items) ==
    IF items = <<>> THEN <<>>
    ELSE <<[page |-> Head(items).page,
            markdown |-> Head(items).markdown,
            json |-> Head(items).json,
            content_sections |-> Head(items).content_sections,
            forms |-> Head(items).forms]>> \o IndexEntries(Tail(items))

\* with open(os.path.join(content_dir, 'INDEX.md'), 'w') as f: ...; an OSError leaves main()
WriteIndex ==
    /\ pc = "index"
    /\ indexWrites' = indexWrites + 1
    /\ \/ /\ indexFile' = [status |-> "complete", entries |-> IndexEntries(summary)]
          /\ pc' = "done"
          /\ UNCHANGED <<crashedIn, faults>>
       \/ /\ faults < MaxFaults
          /\ faults' = faults + 1
          /\ \/ UNCHANGED indexFile
             \/ indexFile' = [status |-> "partial", entries |-> <<>>]
          /\ pc' = "crashed"
          /\ crashedIn' = "index"
    /\ UNCHANGED <<pageIdx, pageContent, md_file, json_file, summary, inputFiles, mdFiles,
                   jsonFiles, attempted, exc, errors, spamVars, extractVars>>

Next ==
    \/ Makedirs
    \/ LoopHead
    \/ ExtractPage
    \/ SaveMarkdown
    \/ WriteJson
    \/ AppendSummary
    \/ ExceptHandler
    \/ WriteIndex

Spec == Init /\ [][Next]_vars

\* main() is one sequential thread: a step that can be taken is taken
FairSpec == Spec /\ WF_vars(Next)

----------------------------------------------------------------------------
(* is_spam applied to one text.                                            *)

SpamAlphabet == {"s", "S", "e", "E", "o", "x"}

Upper(s) == [i \in 1..Len(s) |-> UpperChar(s[i])]
AltCase(s) == [i \in 1..Len(s) |-> IF i % 2 = 1 THEN UpperChar(s[i]) ELSE s[i]]
DropLast(s) == SubSeq(s, 1, Len(s) - 1)

\* every keyword as written, in upper case, in alternating case and with its
\* last character missing, alone and inside a longer word
KeywordTexts ==
    {pre \o v \o post :
        pre \in {<<>>, <<"x">>},
        post \in {<<>>, <<"x">>},
        v \in UNION {{k, Upper(k), AltCase(k), DropLast(k)} : k \in Range(SPAM_KEYWORDS)}}

\* "POKER" and "CASİNO"
UnicodeCaseTexts ==
    {<<"P", "O", "U+212A", "E", "R">>, <<"C", "A", "S", "U+0130", "N", "O">>}

SpamTexts ==
    SeqsUpTo(SpamAlphabet, MaxTextLen) \cup KeywordTexts \cup UnicodeCaseTexts
        \cup ParagraphTexts \cup HeadingTexts

SpamInit ==
    /\ text \in SpamTexts
    /\ spamPc = "call"
    /\ spamResult = FALSE
    /\ ExtractIdle
    /\ MainIdle

IsSpamCall ==
    /\ spamPc = "call"
    /\ spamResult' = is_spam(text)
    /\ spamPc' = "return"
    /\ UNCHANGED <<text, extractVars, mainVars>>

SpamNext == IsSpamCall

SpamSpec == SpamInit /\ [][SpamNext]_vars

----------------------------------------------------------------------------
(* extract_page_content applied to one document, one loop iteration per    *)
(* step.  origin and formOrigin record, for each entry of content_sections *)
(* and of forms, the element it was built from.                            *)

ExtractInit ==
    /\ doc \in ExtractDocs
    /\ ePc = "start"
    /\ eIdx = 1
    /\ content = EmptyContent(doc, "about")
    /\ origin = <<>>
    /\ formOrigin = <<>>
    /\ SpamIdle
    /\ MainIdle

\* main_content = soup.find('div', id='wsite-content'); if main_content:
ExtractFindMain ==
    /\ ePc = "start"
    /\ ePc' = IF doc.hasMain THEN "paragraphs" ELSE "forms"
    /\ UNCHANGED <<doc, eIdx, content, origin, formOrigin, spamVars, mainVars>>

ExtractParagraph ==
    /\ ePc = "paragraphs"
    /\ IF eIdx <= Len(doc.paragraphs)
       THEN LET sections == ParagraphBody(content.content_sections, doc.paragraphs[eIdx]) IN
            /\ content' = [content EXCEPT !.content_sections = sections]
            /\ origin' = IF Len(sections) > Len(content.content_sections)
                         THEN Append(origin, [kind |-> "p", idx |-> eIdx])
                         ELSE origin
            /\ eIdx' = eIdx + 1
            /\ ePc' = ePc
       ELSE /\ ePc' = "headings"
            /\ eIdx' = 1
            /\ UNCHANGED <<content, origin>>
    /\ UNCHANGED <<doc, formOrigin, spamVars, mainVars>>

ExtractHeading ==
    /\ ePc = "headings"
    /\ IF eIdx <= Len(doc.headings)
       THEN LET sections == HeadingBody(content.content_sections, doc.headings[eIdx]) IN
            /\ content' = [content EXCEPT !.content_sections = sections]
            /\ origin' = IF Len(sections) > Len(content.content_sections)
                         THEN Append(origin, [kind |-> "h", idx |-> eIdx])
                         ELSE origin
            /\ eIdx' = eIdx + 1
            /\ ePc' = ePc
       ELSE /\ ePc' = "forms"
            /\ eIdx' = 1
            /\ UNCHANGED <<content, origin>>
    /\ UNCHANGED <<doc, formOrigin, spamVars, mainVars>>

ExtractForm ==
    /\ ePc = "forms"
    /\ IF eIdx <= Len(doc.forms)
       THEN LET forms == FormBody(content.forms, doc.forms[eIdx]) IN
            /\ content' = [content EXCEPT !.forms = forms]
            /\ formOrigin' = IF Len(forms) > Len(content.forms)
                             THEN Append(formOrigin, eIdx)
                             ELSE formOrigin
            /\ eIdx' = eIdx + 1
            /\ ePc' = ePc
       ELSE /\ ePc' = "done"
            /\ eIdx' = 1
            /\ UNCHANGED <<content, formOrigin>>
    /\ UNCHANGED <<doc, origin, spamVars, mainVars>>

ExtractNext ==
    \/ ExtractFindMain
    \/ ExtractParagraph
    \/ ExtractHeading
    \/ ExtractForm

ExtractSpec == ExtractInit /\ [][ExtractNext]_vars

----------------------------------------------------------------------------
(* Properties of is_spam and extract_page_content.                         *)

Sections == content.content_sections

HasBothFooterMarkers(t) ==
    Contains(t, FooterMarkerLong) /\ Contains(t, FooterMarkerRights)

\* the text the entry with origin o was taken from, trimmed
SourceText(o) ==
    IF o.kind = "p" THEN strip(doc.paragraphs[o.idx]) ELSE strip(doc.headings[o.idx])

\* the positions of content_sections filled before heading j was looked at
BeforeHeading(j) ==
    {a \in 1..Len(origin) : origin[a].kind = "p" \/ origin[a].idx < j}

\* C4: the required flag of every extracted field is true exactly when the
\* element it was built from carries a required attribute.
C4_RequiredIffAttributePresent ==
    ePc = "done" =>
        \A b \in 1..Len(content.forms) :
            \A j \in 1..Len(content.forms[b].fields) :
                content.forms[b].fields[j].required
                    <=> (\E kv \in doc.forms[formOrigin[b]].inputs[j].attrs : kv[1] = "required")

\* C6: every entry of the extracted content_sections is not spam, is longer
\* than 10 characters if it came from a paragraph and longer than 3 if it
\* came from a heading, and no entry that came from a paragraph contains
\* both footer markers.
C6_SectionsFiltered ==
    ePc = "done" =>
        /\ Len(origin) = Len(Sections)
        /\ \A a \in 1..Len(Sections) :
            /\ ~is_spam(Sections[a])
            /\ origin[a].kind = "p" =>
                /\ Len(strip(Sections[a])) > 10
                /\ ~HasBothFooterMarkers(Sections[a])
            /\ origin[a].kind = "h" => Len(strip(Sections[a])) > 3

\* a paragraph was dropped for its length, another kept, and a heading kept
C6_Witness ==
    /\ ePc = "done"
    /\ \E i \in 1..Len(doc.paragraphs) :
        /\ Len(strip(doc.paragraphs[i])) = 10
        /\ Len(doc.paragraphs[i]) > 10
    /\ \E i \in 1..Len(doc.paragraphs) : HasBothFooterMarkers(doc.paragraphs[i])
    /\ \E a \in 1..Len(origin) : origin[a].kind = "h"

\* C7: is_spam returns true exactly when the lower-cased text contains an
\* entry of SPAM_KEYWORDS as a substring.
C7_IsSpamIffKeywordSubstring ==
    spamPc = "return" =>
        (spamResult <=> \E k \in Range(SPAM_KEYWORDS) : Contains(lower(text), k))

\* a keyword in mixed case inside a longer word was reported as spam
C7_Witness ==
    /\ spamPc = "return"
    /\ spamResult
    /\ text # lower(text)
    /\ \E k \in Range(SPAM_KEYWORDS) :
        Len(text) > Len(k) /\ Contains(lower(text), k) /\ ~Contains(text, k)

\* C8: in content_sections the entries from paragraphs come first, in
\* document order, then the entries from headings, in document order; a
\* paragraph is an entry exactly when it passes the paragraph filter,
\* whatever was collected before it; a heading is an entry exactly when it
\* passes the heading filter and its trimmed text is not yet in the list.
C8_ParagraphsThenHeadingsDedupHeadingsOnly ==
    ePc = "done" =>
        /\ Len(origin) = Len(Sections)
        /\ \A a \in 1..Len(origin) : Sections[a] = SourceText(origin[a])
        /\ \A a, b \in 1..Len(origin) :
            a < b =>
                /\ origin[a].kind = "h" => origin[b].kind = "h"
                /\ origin[a].kind = origin[b].kind => origin[a].idx < origin[b].idx
        /\ \A i \in 1..Len(doc.paragraphs) :
            LET t == strip(doc.paragraphs[i]) IN
            (\E a \in 1..Len(origin) : origin[a] = [kind |-> "p", idx |-> i])
                <=> (doc.hasMain /\ ~HasBothFooterMarkers(t) /\ ~is_spam(t) /\ Len(t) > 10)
        /\ \A j \in 1..Len(doc.headings) :
            LET t == strip(doc.headings[j]) IN
            (\E a \in 1..Len(origin) : origin[a] = [kind |-> "h", idx |-> j])
                <=> /\ doc.hasMain
                    /\ ~is_spam(t)
                    /\ Len(t) > 3
                    /\ ~\E a \in BeforeHeading(j) : Sections[a] = t

\* two equal paragraphs are both entries and a heading with the same text is not
C8_Witness ==
    /\ ePc = "done"
    /\ \E a, b \in 1..Len(origin) :
        /\ a < b
        /\ origin[a].kind = "p"
        /\ origin[b].kind = "p"
        /\ Sections[a] = Sections[b]
    /\ \E j \in 1..Len(doc.headings) :
        /\ InList(strip(doc.headings[j]), Sections)
        /\ ~\E a \in 1..Len(origin) : origin[a] = [kind |-> "h", idx |-> j]

\* C9: every extracted FormRecord has at least one field; a form element
\* without input/textarea/select descendants produces no FormRecord and every
\* other form element produces exactly one, in document order.
C9_FormsHaveFields ==
    /\ \A b \in 1..Len(content.forms) : Len(content.forms[b].fields) >= 1
    /\ ePc = "done" =>
        /\ Len(formOrigin) = Len(content.forms)
        /\ \A a, b \in 1..Len(formOrigin) : a < b => formOrigin[a] < formOrigin[b]
        /\ \A i \in 1..Len(doc.forms) :
            Cardinality({b \in 1..Len(formOrigin) : formOrigin[b] = i})
                = IF Len(doc.forms[i].inputs) >= 1 THEN 1 ELSE 0
        /\ \A b \in 1..Len(formOrigin) :
            /\ Len(content.forms[b].fields) = Len(doc.forms[formOrigin[b]].inputs)
            /\ content.forms[b].action
                = get(doc.forms[formOrigin[b]].attrs, "action", PyStr("")).v

\* a form without fields was left out and a later form with a field was kept
C9_Witness ==
    /\ ePc = "done"
    /\ Len(doc.forms) = 2
    /\ doc.forms[1] = FormWithActionNoFields
    /\ Len(content.forms) = 1
    /\ formOrigin = <<2>>

----------------------------------------------------------------------------
(* Properties of main().                                                   *)

\* the pages whose input file is in the pages directory
Existing == {pages[i].page_name : i \in {n \in 1..Len(pages) : pages[n].html_file \in inputFiles}}

SummaryPages == {summary[i].page : i \in 1..Len(summary)}

FailedPages == {errors[k].page : k \in 1..Len(errors)}

IsWriteFailure(e) == e.stage \in {"markdown", "json"} /\ e.cause = "OSError"

WriteFailedPages == {errors[k].page : k \in {n \in 1..Len(errors) : IsWriteFailure(errors[n])}}

IndexPages == [a \in 1..Len(indexFile.entries) |-> indexFile.entries[a].page]

\* C1: an exception raised while a page is processed never stops the run:
\* the loop goes on until every page whose input file exists has been
\* attempted, and the INDEX.md write is then executed, once; it leaves
\* INDEX.md complete unless that write itself raises.
C1_PageFailureNeverStopsRun ==
    /\ [](indexWrites <= 1)
    /\ [](pc = "except" =>
            <>(/\ indexWrites = 1
               /\ attempted = Existing
               /\ \/ pc = "done" /\ indexFile.status = "complete"
                  \/ pc = "crashed" /\ crashedIn = "index"))

\* a page failed, a later page was attempted and INDEX.md was written
C1_Witness ==
    /\ pc = "done"
    /\ indexFile.status = "complete"
    /\ indexWrites = 1
    /\ \E p \in FailedPages : \E q \in attempted : PageIndex(q) > PageIndex(p)

\* C2: the pages listed in INDEX.md are exactly the pages whose input file
\* existed and for which no error was raised, each once, in the order of the
\* static page list.
C2_IndexListsSucceededPagesInOrder ==
    indexFile.status = "complete" =>
        /\ \A a, b \in 1..Len(IndexPages) :
            a < b => PageIndex(IndexPages[a]) < PageIndex(IndexPages[b])
        /\ \A p \in PageNames :
            (\E a \in 1..Len(IndexPages) : IndexPages[a] = p)
                <=> (p \in Existing /\ p \notin FailedPages)

\* INDEX.md lists several pages but neither a missing nor a failed one
C2_Witness ==
    /\ indexFile.status = "complete"
    /\ Len(IndexPages) >= 2
    /\ Existing # PageNames
    /\ FailedPages # {}

\* the "## Forms" section save_markdown is meant to write for these forms
HasFormsSection(lines, forms) ==
    /\ \E l \in Range(lines) : l.kind = "h2" /\ l.arg = <<"Forms">>
    /\ \A i \in 1..Len(forms) :
        /\ \E l \in Range(lines) : l.kind = "h3" /\ l.n = i
        /\ \E l \in Range(lines) : l.kind = "action" /\ l.n = i /\ l.arg = <<forms[i].action>>
        /\ \E l \in Range(lines) : l.kind = "method" /\ l.n = i /\ l.arg = <<forms[i].method>>
        /\ \A j \in 1..Len(forms[i].fields) :
            \E l \in Range(lines) :
                l.kind = "field" /\ l.n = i /\ l.arg[1] = forms[i].fields[j].name

\* C3: every page whose input file exists and is read, with a writable
\* output directory, is processed successfully whatever its content: its
\* Markdown file is written completely, with a "## Forms" section if the
\* record has forms, its .json file is written and it gets a summary entry.
C3_EveryReadablePageSucceeds ==
    \A p \in attempted :
        (PageIndex(p) < pageIdx /\ ~\E k \in 1..Len(errors) :
                                        errors[k].page = p /\ errors[k].cause = "OSError")
            => /\ mdFiles[FileStem(p)].status = "complete"
               /\ jsonFiles[FileStem(p)].status = "complete"
               /\ p \in SummaryPages
               /\ jsonFiles[FileStem(p)].content[1].forms # <<>> =>
                    HasFormsSection(mdFiles[FileStem(p)].lines,
                                    jsonFiles[FileStem(p)].content[1].forms)

\* C5, as stated: a failure to write a page's .md or .json file is fatal for
\* the run: no later page is processed and the run does not complete.
C5_WriteFailureIsFatal ==
    \A p \in WriteFailedPages :
        /\ pc # "done"
        /\ \A q \in attempted : PageIndex(q) <= PageIndex(p)

\* C5, amended: a failure to write a page's .md or .json file is not fatal
\* for the run: it is caught by the except clause of that page and reported,
\* the page gets no summary entry, the loop goes on with the next page and
\* the error does not leave main(), which an OSError does only from
\* os.makedirs or from the INDEX.md write.
C5_WriteFailureCaughtPerPage ==
    /\ exc # NoExc => pc = "except"
    /\ pc = "crashed" => crashedIn \in {"makedirs", "index"}
    /\ \A p \in WriteFailedPages :
        /\ p \notin SummaryPages
        /\ pageIdx > PageIndex(p)

\* a page's write failed, a later page was processed and the run completed
C5_Witness ==
    /\ pc = "done"
    /\ \E p \in WriteFailedPages : \E q \in SummaryPages : PageIndex(q) > PageIndex(p)

\* C10: a page's .json file is written only after its Markdown file was
\* written completely, and its summary entry is appended only after both
\* writes: a page of the summary has both files complete, and a page whose
\* Markdown write failed has no .json file.
C10_MarkdownThenJsonThenSummary ==
    /\ \A s \in Stems : jsonFiles[s].status # "absent" => mdFiles[s].status = "complete"
    /\ \A p \in SummaryPages :
        /\ mdFiles[FileStem(p)].status = "complete"
        /\ jsonFiles[FileStem(p)].status = "complete"
    /\ \A k \in 1..Len(errors) :
        errors[k].stage = "markdown" => jsonFiles[FileStem(errors[k].page)].status = "absent"
    /\ pc = "write_json" => mdFiles[FileStem(page_name)].status = "complete"
    /\ pc = "append" =>
        /\ mdFiles[FileStem(page_name)].status = "complete"
        /\ jsonFiles[FileStem(page_name)].status = "complete"

\* one page's Markdown write failed half-way and a later page was written in full
C10_Witness ==
    /\ \E k \in 1..Len(errors) :
        /\ errors[k].stage = "markdown"
        /\ mdFiles[FileStem(errors[k].page)].status = "partial"
        /\ jsonFiles[FileStem(errors[k].page)].status = "absent"
    /\ \E p \in SummaryPages : jsonFiles[FileStem(p)].status = "complete"
    /\ \E s \in Stems : jsonFiles[s].status = "partial"

====
